---- MODULE Spec2Model ----
(***************************************************************************)
(* Model of the streaming decision core of Physio-2:                       *)
(*   SessionScorer (src/session_scoring.py) with its safety escalation,    *)
(*   PhaseDetector (src/realtime_feedback.py).                             *)
(* Python dicts are functions over a finite key set; a missing key is a    *)
(* key outside DOMAIN.  Angle values are integer degrees.                  *)
(***************************************************************************)
EXTENDS Integers, Sequences, FiniteSets, TLC

VARIABLES
    exercise_name,          \* SessionScorer.exercise_name
    escalation_thresholds,  \* SessionScorer.escalation_thresholds
    frames,                 \* SessionScorer.frames
    safety_violations,      \* SessionScorer.safety_violations
    violation_counts,       \* SessionScorer.violation_counts
    current_warning_level,  \* SessionScorer.current_warning_level
    frame_count,            \* SessionScorer.frame_count
    violation_tracking,     \* SessionScorer.violation_tracking
    last_call,              \* the last SessionScorer call: name, arguments, result
    pd_exercise,            \* PhaseDetector.exercise_name
    thresholds,             \* PhaseDetector.thresholds
    current_phase,          \* PhaseDetector.current_phase
    phase_start_frame,      \* PhaseDetector.phase_start_frame
    hold_frames,            \* PhaseDetector.hold_frames
    last_angle,             \* PhaseDetector.last_angle
    pd_calls                \* the detect_phase calls made so far, with their results

scorerVars == <<exercise_name, escalation_thresholds, frames, safety_violations,
                violation_counts, current_warning_level, frame_count,
                violation_tracking, last_call>>
detectorVars == <<pd_exercise, thresholds, current_phase, phase_start_frame,
                  hold_frames, last_angle, pd_calls>>
vars == <<exercise_name, escalation_thresholds, frames, safety_violations,
          violation_counts, current_warning_level, frame_count,
          violation_tracking, last_call, pd_exercise, thresholds,
          current_phase, phase_start_frame, hold_frames, last_angle, pd_calls>>

(***************************************************************************)
(* Bounds                                                                  *)
(***************************************************************************)
\* frames added to one session in Spec
MaxFrames == 3
\* frames added to one session in StreakSpec
MaxStreakFrames == 10
\* detect_phase calls on one detector in PhaseSpec
MaxCalls == 4

(***************************************************************************)
(* Dict helpers                                                            *)
(***************************************************************************)
EmptyDict == [k \in {} |-> 0]

\* d.get(k, default)
DictGet(d, k, default) == IF k \in DOMAIN d THEN d[k] ELSE default

\* d[k] = v
DictSet(d, k, v) == [x \in (DOMAIN d) \cup {k} |-> IF x = k THEN v ELSE d[x]]

Abs(x) == IF x < 0 THEN -x ELSE x

Min2(x, y) == IF x <= y THEN x ELSE y

Max2(x, y) == IF x >= y THEN x ELSE y

Last(s) == s[Len(s)]

(***************************************************************************)
(* SessionScorer: construction                                             *)
(***************************************************************************)
Severities == {"low", "medium", "high", "critical"}

\* the thresholds __init__ installs when the caller passes none
DefaultThresholds ==
    [s \in Severities |->
        CASE s = "low" -> 10
          [] s = "medium" -> 5
          [] s = "high" -> 3
          [] s = "critical" -> 1]

\* a caller-supplied safety_escalation_thresholds dict: low and medium
\* escalate without waiting, high on the second frame
EagerThresholds ==
    [s \in Severities |->
        CASE s = "low" -> 0
          [] s = "medium" -> 0
          [] s = "high" -> 2
          [] s = "critical" -> 1]

\* the exercise names the callers offer (demo.py), and one that has no profile
KnownExercises == {"arm_raise", "shoulder_rotation", "elbow_flexion"}

UnknownExercise == "jumping_jacks"

NoCall == [op |-> "none"]

InitTracking == [s \in Severities |-> EmptyDict]

\* setups: the <<exercise_name, safety_escalation_thresholds>> pairs to construct with
ScorerInit(setups) ==
    /\ \E su \in setups :
          /\ exercise_name = su[1]
          /\ escalation_thresholds = su[2]
    /\ frames = << >>
    /\ safety_violations = << >>
    /\ violation_counts = EmptyDict
    /\ current_warning_level = 0
    /\ frame_count = 0
    /\ violation_tracking = InitTracking
    /\ last_call = NoCall

(***************************************************************************)
(* SessionScorer._escalate_violation                                       *)
(***************************************************************************)
\* variant: the level SafetyViolation.__init__ sets is kept
EscalationLevelUnset(severity) == 0

\* SafetyViolation.__init__ followed by the escalation_level assignment
EscalationLevel(severity) ==
    CASE severity = "critical" -> 4
      [] severity = "high" -> Max2(0, 3)
      [] severity = "medium" -> Max2(0, 2)
      [] severity = "low" -> Max2(0, 1)
      [] OTHER -> 0

\* variant: the level is assigned the level of the severity, without max()
EscalatedWarningLevelNoMax(level, severity) ==
    CASE severity = "critical" -> 4
      [] severity = "high" -> 3
      [] severity = "medium" -> 2
      [] severity = "low" -> 1
      [] OTHER -> level

\* the assignment to self.current_warning_level
EscalatedWarningLevel(level, severity) ==
    CASE severity = "critical" -> 4
      [] severity = "high" -> Max2(level, 3)
      [] severity = "medium" -> Max2(level, 2)
      [] severity = "low" -> Max2(level, 1)
      [] OTHER -> level

\* variant: the violation is logged as not escalated
NewViolationNotEscalated(angle_name, angle_value, min_safe, max_safe, severity, fc) ==
    [angle_name |-> angle_name, angle_value |-> angle_value,
     min_safe |-> min_safe, max_safe |-> max_safe, severity |-> severity,
     frame_count |-> fc, escalated |-> FALSE,
     escalation_level |-> EscalationLevel(severity)]

\* the object appended to self.safety_violations
NewViolation(angle_name, angle_value, min_safe, max_safe, severity, fc) ==
    [angle_name |-> angle_name, angle_value |-> angle_value,
     min_safe |-> min_safe, max_safe |-> max_safe, severity |-> severity,
     frame_count |-> fc, escalated |-> TRUE,
     escalation_level |-> EscalationLevel(severity)]

\* variant: an escalation re-arms the counter it fired on
EscalateViolationRearm(st, angle_name, angle_value, min_safe, max_safe, severity, fc) ==
    [tracking |-> [st.tracking EXCEPT ![severity] = DictSet(@, angle_name, 0)],
     violations |-> Append(st.violations,
                       NewViolation(angle_name, angle_value, min_safe, max_safe,
                                    severity, fc)),
     counts |-> DictSet(st.counts, angle_name,
                        DictGet(st.counts, angle_name, 0) + 1),
     level |-> EscalatedWarningLevel(st.level, severity)]

\* st is the part of the scorer the frame check works on:
\* [tracking, violations, counts, level]
EscalateViolation(st, angle_name, angle_value, min_safe, max_safe, severity, fc) ==
    [tracking |-> st.tracking,
     violations |-> Append(st.violations,
                       NewViolation(angle_name, angle_value, min_safe, max_safe,
                                    severity, fc)),
     counts |-> DictSet(st.counts, angle_name,
                        DictGet(st.counts, angle_name, 0) + 1),
     level |-> EscalatedWarningLevel(st.level, severity)]

(***************************************************************************)
(* SessionScorer._check_safety_violations                                  *)
(***************************************************************************)
Deviation(angle_value, min_safe, max_safe) ==
    Min2(Abs(angle_value - min_safe), Abs(angle_value - max_safe))

\* variant: a fourth bucket, critical, above 35 degrees
SeverityOfWithCritical(deviation) ==
    IF deviation > 35 THEN "critical"
    ELSE IF deviation > 30 THEN "high"
    ELSE IF deviation > 15 THEN "medium"
    ELSE "low"

SeverityOf(deviation) ==
    IF deviation > 30 THEN "high"
    ELSE IF deviation > 15 THEN "medium"
    ELSE "low"

\* "Track consecutive violations": create the counter when missing, add one
\* variant: the counters of every angle tracked at the severity are raised
TrackViolationAllAngles(tracking, severity, angle_name) ==
    [tracking EXCEPT ![severity] =
        [a \in (DOMAIN @) \cup {angle_name} |-> DictGet(@, a, 0) + 1]]

TrackViolation(tracking, severity, angle_name) ==
    [tracking EXCEPT ![severity] =
        DictSet(@, angle_name, DictGet(@, angle_name, 0) + 1)]

\* variant: the loop covers "high" as well
ResetCountersWithHigh(tracking, angle_name) ==
    [s \in Severities |->
        IF s \in {"high", "medium", "low"} /\ angle_name \in DOMAIN tracking[s]
        THEN DictSet(tracking[s], angle_name, 0)
        ELSE tracking[s]]

\* variant: no counter is reset
ResetCountersNone(tracking, angle_name) == tracking

\* "Reset lower severity counters": the loop over ["medium", "low"]
ResetCounters(tracking, angle_name) ==
    [s \in Severities |->
        IF s \in {"medium", "low"} /\ angle_name \in DOMAIN tracking[s]
        THEN DictSet(tracking[s], angle_name, 0)
        ELSE tracking[s]]

\* variant: a safe observation ends the streaks of the angle
CheckAngleResetOnSafe(st, angle_name, angles, validations, angle_ranges, thr, fc) ==
    IF angle_name \notin DOMAIN angle_ranges THEN st
    ELSE IF validations[angle_name]
    THEN [st EXCEPT !.tracking =
            [s \in Severities |->
                IF angle_name \in DOMAIN st.tracking[s]
                THEN DictSet(st.tracking[s], angle_name, 0)
                ELSE st.tracking[s]]]
    ELSE
        LET angle_value == DictGet(angles, angle_name, 0)
            min_safe == angle_ranges[angle_name][1]
            max_safe == angle_ranges[angle_name][2]
            severity == SeverityOf(Deviation(angle_value, min_safe, max_safe))
            tracked == ResetCounters(
                           TrackViolation(st.tracking, severity, angle_name),
                           angle_name)
            threshold == DictGet(thr, severity, 5)
            st2 == [st EXCEPT !.tracking = tracked]
        IN  IF tracked[severity][angle_name] >= threshold
            THEN EscalateViolation(st2, angle_name, angle_value, min_safe,
                                   max_safe, severity, fc)
            ELSE st2

\* one iteration of the loop over validations.items()
CheckAngle(st, angle_name, angles, validations, angle_ranges, thr, fc) ==
    IF angle_name \notin DOMAIN angle_ranges THEN st
    ELSE IF validations[angle_name] THEN st
    ELSE
        LET angle_value == DictGet(angles, angle_name, 0)
            min_safe == angle_ranges[angle_name][1]
            max_safe == angle_ranges[angle_name][2]
            severity == SeverityOf(Deviation(angle_value, min_safe, max_safe))
            tracked == ResetCounters(
                           TrackViolation(st.tracking, severity, angle_name),
                           angle_name)
            threshold == DictGet(thr, severity, 5)
            st2 == [st EXCEPT !.tracking = tracked]
        IN  IF tracked[severity][angle_name] >= threshold
            THEN EscalateViolation(st2, angle_name, angle_value, min_safe,
                                   max_safe, severity, fc)
            ELSE st2

\* the loop, over the keys of validations in their insertion order
RECURSIVE CheckSafetyViolations(_, _, _, _, _, _, _)
CheckSafetyViolations(st, order, angles, validations, angle_ranges, thr, fc) ==
    IF order = << >> THEN st
    ELSE CheckSafetyViolations(
             CheckAngle(st, Head(order), angles, validations, angle_ranges,
                        thr, fc),
             Tail(order), angles, validations, angle_ranges, thr, fc)

(***************************************************************************)
(* SessionScorer.add_frame                                                 *)
(***************************************************************************)
\* variant: frames are numbered from 0
FrameDataZeroBased(fc, angles, validations) ==
    [frame |-> fc - 1, angles |-> angles, validations |-> validations]

\* the dict appended to self.frames
FrameData(fc, angles, validations) ==
    [frame |-> fc, angles |-> angles, validations |-> validations]

\* order is the insertion order of the keys of validations
AddFrame(angles, validations, order, angle_ranges) ==
    LET fc == frame_count + 1
        st == CheckSafetyViolations(
                  [tracking |-> violation_tracking,
                   violations |-> safety_violations,
                   counts |-> violation_counts,
                   level |-> current_warning_level],
                  order, angles, validations, angle_ranges,
                  escalation_thresholds, fc)
    IN  /\ frame_count' = fc
        /\ frames' = Append(frames, FrameData(fc, angles, validations))
        /\ violation_tracking' = st.tracking
        /\ safety_violations' = st.violations
        /\ violation_counts' = st.counts
        /\ current_warning_level' = st.level
        /\ last_call' = [op |-> "add_frame", angles |-> angles,
                         validations |-> validations,
                         angle_ranges |-> angle_ranges]
        /\ UNCHANGED <<exercise_name, escalation_thresholds>>

(***************************************************************************)
(* SessionScorer.get_safety_status                                         *)
(***************************************************************************)
WarningText(level) ==
    CASE level = 0 -> "SAFE"
      [] level = 1 -> "CAUTION: Minor deviation detected"
      [] level = 2 -> "WARNING: Moderate deviation - adjust position"
      [] level = 3 -> "HIGH WARNING: Significant deviation - slow down"
      [] level = 4 -> "CRITICAL: Stop exercise immediately"
      [] OTHER -> "UNKNOWN"

\* variant: s[:n]
FirstN(s, n) ==
    IF Len(s) <= n THEN s ELSE SubSeq(s, 1, n)

\* s[-n:]
LastN(s, n) ==
    IF Len(s) <= n THEN s ELSE SubSeq(s, Len(s) - n + 1, Len(s))

SafetyStatus ==
    [warning_level |-> current_warning_level,
     warning_text |-> WarningText(current_warning_level),
     recent_violations |-> LastN(safety_violations, 5),
     is_safe |-> current_warning_level < 2]

\* variant: the violations reported are taken off the log
GetSafetyStatusDrain ==
    /\ last_call' = [op |-> "get_safety_status", result |-> SafetyStatus]
    /\ safety_violations' =
          SubSeq(safety_violations, 1, Len(safety_violations) - Min2(5, Len(safety_violations)))
    /\ UNCHANGED <<exercise_name, escalation_thresholds, frames,
                   violation_counts, current_warning_level,
                   frame_count, violation_tracking>>

GetSafetyStatus ==
    /\ last_call' = [op |-> "get_safety_status", result |-> SafetyStatus]
    /\ UNCHANGED <<exercise_name, escalation_thresholds, frames,
                   safety_violations, violation_counts, current_warning_level,
                   frame_count, violation_tracking>>

(***************************************************************************)
(* SessionScorer.get_violation_summary                                     *)
(***************************************************************************)
\* the number of elements of s that satisfy Test
CountIf(s, Test(_)) == Cardinality({i \in 1..Len(s) : Test(s[i])})

ViolationSummary ==
    [total_violations |-> Len(safety_violations),
     by_severity |->
        [sev \in Severities |->
            LET IsSev(v) == v.severity = sev
            IN  CountIf(safety_violations, IsSev)],
     by_angle |-> violation_counts,
     highest_warning_level |-> current_warning_level,
     escalation_events |->
        LET IsEscalated(v) == v.escalated
        IN  CountIf(safety_violations, IsEscalated)]

GetViolationSummary ==
    /\ last_call' = [op |-> "get_violation_summary", result |-> ViolationSummary]
    /\ UNCHANGED <<exercise_name, escalation_thresholds, frames,
                   safety_violations, violation_counts, current_warning_level,
                   frame_count, violation_tracking>>

(***************************************************************************)
(* SessionScorer.calculate_score                                           *)
(* Scores are kept in hundredths (the code rounds to 2 decimals); the      *)
(* arithmetic is exact, on fractions <<numerator, denominator>>.           *)
(***************************************************************************)
RECURSIVE SumSeq(_)
SumSeq(s) == IF s = << >> THEN 0 ELSE Head(s) + SumSeq(Tail(s))

\* all(frame["validations"].values())
AllSafe(frame) == \A a \in DOMAIN frame.validations : frame.validations[a]

\* sum(1 for frame in self.frames if all(...))
SafeFrames == CountIf(frames, AllSafe)

\* frame["angles"][angle_name] raises KeyError for a frame without the angle
ScoreRaises ==
    /\ frames # << >>
    /\ \E a \in DOMAIN frames[1].angles :
         \E i \in 1..Len(frames) : a \notin DOMAIN frames[i].angles

ViolationPenalty == Min2(30, Len(safety_violations) * 2)

\* n * (n - 1) * statistics.variance(values), an integer for integer values
ScaledVariance(values) ==
    LET n == Len(values)
        squares == [i \in 1..n |-> values[i] * values[i]]
    IN  n * SumSeq(squares) - SumSeq(values) * SumSeq(values)

\* variant: an angle seen once has consistency 0
ScaledConsistencySingleZero(angle_name) ==
    LET values == [i \in 1..Len(frames) |-> frames[i].angles[angle_name]]
        n == Len(values)
    IN  IF n > 1
        THEN Max2(0, 100 * n * (n - 1) - ScaledVariance(values))
        ELSE 0

\* max(0, 100 - variance) for one angle, over the denominator n * (n - 1)
ScaledConsistency(angle_name) ==
    LET values == [i \in 1..Len(frames) |-> frames[i].angles[angle_name]]
        n == Len(values)
    IN  IF n > 1
        THEN Max2(0, 100 * n * (n - 1) - ScaledVariance(values))
        ELSE 100

\* sum(consistencies.values())
RECURSIVE SumConsistency(_)
SumConsistency(angle_names) ==
    IF angle_names = {} THEN 0
    ELSE LET a == CHOOSE x \in angle_names : TRUE
         IN  ScaledConsistency(a) + SumConsistency(angle_names \ {a})

\* statistics.mean(consistencies.values()) if consistencies else 100
AverageConsistency ==
    LET angle_names == DOMAIN frames[1].angles
        n == Len(frames)
        d == IF n > 1 THEN n * (n - 1) ELSE 1
    IN  IF angle_names = {} THEN <<100, 1>>
        ELSE <<SumConsistency(angle_names),
               Cardinality(angle_names) * d>>

\* round(x, 2) of the fraction num / den of hundredths, ties to even
RoundHalfEven(num, den) ==
    LET q == num \div den
        r == num % den
    IN  IF 2 * r < den THEN q
        ELSE IF 2 * r > den THEN q + 1
        ELSE IF q % 2 = 0 THEN q ELSE q + 1

\* variant: without frames the weighted sum of the defaults is returned
ScoreEmptyFull ==
    IF frames = << >> THEN 10000
    ELSE
        LET total_frames == Len(frames)
            ac == AverageConsistency
            den == total_frames * ac[2]
            num == 5000 * SafeFrames * ac[2]
                   + 30 * ac[1] * total_frames
                   + 20 * (100 - ViolationPenalty) * den
        IN  Max2(0, Min2(10000, RoundHalfEven(num, den)))

\* the value calculate_score returns, in hundredths, when it returns
Score ==
    IF frames = << >> THEN 0
    ELSE
        LET total_frames == Len(frames)
            ac == AverageConsistency
            den == total_frames * ac[2]
            \* 100 * (0.5 * completion + 0.3 * consistency + 0.2 * (100 - penalty))
            num == 5000 * SafeFrames * ac[2]
                   + 30 * ac[1] * total_frames
                   + 20 * (100 - ViolationPenalty) * den
        IN  Max2(0, Min2(10000, RoundHalfEven(num, den)))

ScoreResult ==
    IF ScoreRaises THEN [raised |-> "KeyError"] ELSE [value |-> Score]

CalculateScore ==
    /\ last_call' = [op |-> "calculate_score", result |-> ScoreResult]
    /\ UNCHANGED <<exercise_name, escalation_thresholds, frames,
                   safety_violations, violation_counts, current_warning_level,
                   frame_count, violation_tracking>>

(***************************************************************************)
(* SessionScorer.get_summary                                               *)
(***************************************************************************)
SummaryResult ==
    IF ScoreRaises THEN [raised |-> "KeyError"]
    ELSE [value |->
            [exercise |-> exercise_name,
             total_frames |-> Len(frames),
             safe_frames |-> SafeFrames,
             score |-> Score,
             safety |-> ViolationSummary]]

GetSummary ==
    /\ last_call' = [op |-> "get_summary", result |-> SummaryResult]
    /\ UNCHANGED <<exercise_name, escalation_thresholds, frames,
                   safety_violations, violation_counts, current_warning_level,
                   frame_count, violation_tracking>>

(***************************************************************************)
(* PhaseDetector                                                           *)
(***************************************************************************)
PHASE_THRESHOLDS ==
    [e \in KnownExercises |->
        [k \in {"raise_complete", "lower_complete"} |->
            CASE e = "arm_raise" /\ k = "raise_complete" -> 120
              [] e = "arm_raise" /\ k = "lower_complete" -> 30
              [] e = "elbow_flexion" /\ k = "raise_complete" -> 120
              [] e = "elbow_flexion" /\ k = "lower_complete" -> 30
              [] e = "shoulder_rotation" /\ k = "raise_complete" -> 60
              [] e = "shoulder_rotation" /\ k = "lower_complete" -> 10]]

\* PhaseDetector.__init__
DetectorInit(names) ==
    /\ pd_exercise \in names
    /\ thresholds = DictGet(PHASE_THRESHOLDS, pd_exercise, EmptyDict)
    /\ current_phase = "NEUTRAL"
    /\ phase_start_frame = 0
    /\ hold_frames = 0
    /\ last_angle = 0
    /\ pd_calls = << >>

\* variant: entering LOWER keeps the hold counter
PhaseLogicKeepHold(d, raise_complete, lower_complete, angle_value, fc) ==
    LET prev_phase == d.current_phase
    IN  IF angle_value >= raise_complete
        THEN IF prev_phase \notin {"RAISE", "HOLD"}
             THEN [current_phase |-> "RAISE", phase_start_frame |-> fc,
                   hold_frames |-> 0]
             ELSE [d EXCEPT !.current_phase = "HOLD",
                            !.hold_frames = @ + 1]
        ELSE IF angle_value <= lower_complete
        THEN [d EXCEPT !.current_phase = "LOWER", !.phase_start_frame = fc]
        ELSE IF angle_value > lower_complete /\ angle_value < raise_complete
        THEN IF prev_phase = "LOWER"
             THEN [d EXCEPT !.current_phase = "RAISE",
                            !.phase_start_frame = fc]
             ELSE IF prev_phase \in {"RAISE", "HOLD"}
             THEN [d EXCEPT !.current_phase = "HOLD",
                            !.hold_frames = @ + 1]
             ELSE d
        ELSE d

\* variant: the raise threshold is compared with > instead of >=
PhaseLogicStrictRaise(d, raise_complete, lower_complete, angle_value, fc) ==
    LET prev_phase == d.current_phase
    IN  IF angle_value > raise_complete
        THEN IF prev_phase \notin {"RAISE", "HOLD"}
             THEN [current_phase |-> "RAISE", phase_start_frame |-> fc,
                   hold_frames |-> 0]
             ELSE [d EXCEPT !.current_phase = "HOLD",
                            !.hold_frames = @ + 1]
        ELSE IF angle_value <= lower_complete
        THEN [current_phase |-> "LOWER", phase_start_frame |-> fc,
              hold_frames |-> 0]
        ELSE IF angle_value > lower_complete /\ angle_value <= raise_complete
        THEN IF prev_phase = "LOWER"
             THEN [d EXCEPT !.current_phase = "RAISE",
                            !.phase_start_frame = fc]
             ELSE IF prev_phase \in {"RAISE", "HOLD"}
             THEN [d EXCEPT !.current_phase = "HOLD",
                            !.hold_frames = @ + 1]
             ELSE d
        ELSE d

\* variant: a second low frame ends the repetition in NEUTRAL
PhaseLogicBackToNeutral(d, raise_complete, lower_complete, angle_value, fc) ==
    LET prev_phase == d.current_phase
    IN  IF angle_value >= raise_complete
        THEN IF prev_phase \notin {"RAISE", "HOLD"}
             THEN [current_phase |-> "RAISE", phase_start_frame |-> fc,
                   hold_frames |-> 0]
             ELSE [d EXCEPT !.current_phase = "HOLD",
                            !.hold_frames = @ + 1]
        ELSE IF angle_value <= lower_complete
        THEN [current_phase |-> IF prev_phase = "LOWER" THEN "NEUTRAL" ELSE "LOWER",
              phase_start_frame |-> fc, hold_frames |-> 0]
        ELSE IF angle_value > lower_complete /\ angle_value < raise_complete
        THEN IF prev_phase = "LOWER"
             THEN [d EXCEPT !.current_phase = "RAISE",
                            !.phase_start_frame = fc]
             ELSE IF prev_phase \in {"RAISE", "HOLD"}
             THEN [d EXCEPT !.current_phase = "HOLD",
                            !.hold_frames = @ + 1]
             ELSE d
        ELSE d

\* the "Phase detection logic" of detect_phase on the detector fields
\* d = [current_phase, phase_start_frame, hold_frames]
PhaseLogic(d, raise_complete, lower_complete, angle_value, fc) ==
    LET prev_phase == d.current_phase
    IN  IF angle_value >= raise_complete
        THEN IF prev_phase \notin {"RAISE", "HOLD"}
             THEN [current_phase |-> "RAISE", phase_start_frame |-> fc,
                   hold_frames |-> 0]
             ELSE [d EXCEPT !.current_phase = "HOLD",
                            !.hold_frames = @ + 1]
        ELSE IF angle_value <= lower_complete
        THEN [current_phase |-> "LOWER", phase_start_frame |-> fc,
              hold_frames |-> 0]
        ELSE IF angle_value > lower_complete /\ angle_value < raise_complete
        THEN IF prev_phase = "LOWER"
             THEN [d EXCEPT !.current_phase = "RAISE",
                            !.phase_start_frame = fc]
             ELSE IF prev_phase \in {"RAISE", "HOLD"}
             THEN [d EXCEPT !.current_phase = "HOLD",
                            !.hold_frames = @ + 1]
             ELSE d
        ELSE d

\* variant: no early return for a detector without thresholds
DetectedStateNoGuard(thr, d, angle_value, fc) ==
    PhaseLogic(d, DictGet(thr, "raise_complete", 120),
               DictGet(thr, "lower_complete", 30), angle_value, fc)

\* the detector fields after detect_phase(angle_value, fc)
DetectedState(thr, d, angle_value, fc) ==
    IF thr = EmptyDict THEN d
    ELSE PhaseLogic(d, DictGet(thr, "raise_complete", 120),
                    DictGet(thr, "lower_complete", 30), angle_value, fc)

\* what detect_phase returns
DetectedPhase(thr, d, angle_value, fc) ==
    IF thr = EmptyDict THEN "NEUTRAL"
    ELSE DetectedState(thr, d, angle_value, fc).current_phase

DetectPhase(angle_value, fc) ==
    LET d == [current_phase |-> current_phase,
              phase_start_frame |-> phase_start_frame,
              hold_frames |-> hold_frames]
        d2 == DetectedState(thresholds, d, angle_value, fc)
    IN  /\ current_phase' = d2.current_phase
        /\ phase_start_frame' = d2.phase_start_frame
        /\ hold_frames' = d2.hold_frames
        /\ pd_calls' = Append(pd_calls,
                          [angle_value |-> angle_value, frame_count |-> fc,
                           result |-> DetectedPhase(thresholds, d, angle_value, fc),
                           hold_frames |-> d2.hold_frames])
        /\ UNCHANGED <<pd_exercise, thresholds, last_angle>>

\* variant: the duration counts the frame that started the phase
PhaseInfoCountingStart ==
    [phase |-> current_phase, hold_frames |-> hold_frames,
     phase_duration |-> hold_frames + 1]

\* the dict get_phase_info returns
PhaseInfo ==
    [phase |-> current_phase, hold_frames |-> hold_frames,
     phase_duration |-> hold_frames]

GetPhaseInfo ==
    /\ last_call' = [op |-> "get_phase_info", result |-> PhaseInfo]
    /\ UNCHANGED detectorVars

(***************************************************************************)
(* Inputs                                                                  *)
(***************************************************************************)
A1 == "shoulder_abduction"

A2 == "elbow_flexion"

\* the safe ranges of the profile the caller passes as angle_ranges
ProfileRanges == [a \in {A1, A2} |-> IF a = A1 THEN <<40, 100>> ELSE <<50, 110>>]

\* what one frame carries for one angle: an entry in angles, in validations
Seen(v, f) == [hasValue |-> TRUE, value |-> v, hasFlag |-> TRUE, flag |-> f]

Absent == [hasValue |-> FALSE, value |-> 0, hasFlag |-> FALSE, flag |-> TRUE]

FlagOnly(f) == [hasValue |-> FALSE, value |-> 0, hasFlag |-> TRUE, flag |-> f]

ValueOnly(v) == [hasValue |-> TRUE, value |-> v, hasFlag |-> FALSE, flag |-> TRUE]

\* A1 in range, then 10, 20 and 40 degrees below its range
Obs1 == {Absent, Seen(70, TRUE), Seen(30, FALSE), Seen(20, FALSE), Seen(0, FALSE)}

\* A2 40 degrees below its range
Obs2 == {Absent, Seen(10, FALSE)}

FrameInput(o1, o2, ranges) ==
    LET o == [a \in {A1, A2} |-> IF a = A1 THEN o1 ELSE o2]
    IN  [angles |-> [a \in {x \in {A1, A2} : o[x].hasValue} |-> o[a].value],
         validations |-> [a \in {x \in {A1, A2} : o[x].hasFlag} |-> o[a].flag],
         angle_ranges |-> ranges]

\* frames of a caller that validates what it measured; a frame with a flag
\* for an angle it has no value for (webcam_demo.py, the rotation angles); a
\* frame with a value it has no flag for; a frame for a profile without A1
FrameInputs ==
    {FrameInput(o1, o2, ProfileRanges) : o1 \in Obs1, o2 \in Obs2}
    \cup {FrameInput(FlagOnly(FALSE), Absent, ProfileRanges),
          FrameInput(ValueOnly(70), Absent, ProfileRanges),
          FrameInput(Seen(0, FALSE), Absent, [a \in {A2} |-> ProfileRanges[a]])}

\* the insertion orders a dict with these keys can have
KeyOrders(d) ==
    {s \in [1..Cardinality(DOMAIN d) -> DOMAIN d] :
        \A i, j \in 1..Cardinality(DOMAIN d) : i # j => s[i] # s[j]}

(***************************************************************************)
(* Spec: one SessionScorer, any calls                                      *)
(***************************************************************************)
Init ==
    /\ ScorerInit({<<"arm_raise", DefaultThresholds>>,
                   <<"arm_raise", EagerThresholds>>,
                   <<UnknownExercise, DefaultThresholds>>})
    /\ DetectorInit({"arm_raise"})

DoAddFrame ==
    /\ frame_count < MaxFrames
    /\ \E in \in FrameInputs :
         \E order \in KeyOrders(in.validations) :
            AddFrame(in.angles, in.validations, order, in.angle_ranges)
    /\ UNCHANGED detectorVars

DoGetSafetyStatus == GetSafetyStatus /\ UNCHANGED detectorVars

DoGetViolationSummary == GetViolationSummary /\ UNCHANGED detectorVars

DoCalculateScore == CalculateScore /\ UNCHANGED detectorVars

DoGetSummary == GetSummary /\ UNCHANGED detectorVars

Next ==
    \/ DoAddFrame
    \/ DoGetSafetyStatus
    \/ DoGetViolationSummary
    \/ DoCalculateScore
    \/ DoGetSummary

Spec == Init /\ [][Next]_vars

(***************************************************************************)
(* StreakSpec: a session with the default thresholds in which one angle is *)
(* observed in every frame, and its unsafe observations all have the same  *)
(* severity                                                                *)
(***************************************************************************)
StreakInit ==
    /\ ScorerInit({<<"arm_raise", DefaultThresholds>>})
    /\ DetectorInit({"arm_raise"})

StreakObs == {Seen(70, TRUE), Seen(30, FALSE), Seen(20, FALSE), Seen(0, FALSE)}

StreakAddFrame ==
    /\ frame_count < MaxStreakFrames
    /\ \E o \in StreakObs :
         LET in == FrameInput(o, Absent, ProfileRanges)
         IN  /\ \A i \in 1..Len(frames) :
                    (~o.flag /\ ~frames[i].validations[A1])
                        => frames[i].angles[A1] = o.value
             /\ AddFrame(in.angles, in.validations, <<A1>>, in.angle_ranges)
    /\ UNCHANGED detectorVars

StreakNext == StreakAddFrame

StreakSpec == StreakInit /\ [][StreakNext]_vars

(***************************************************************************)
(* MixSpec: default thresholds, one angle, frames of any mix of safe and   *)
(* unsafe values                                                           *)
(***************************************************************************)
MaxMixFrames == 5

MixAddFrame ==
    /\ frame_count < MaxMixFrames
    /\ \E o \in StreakObs :
         LET in == FrameInput(o, Absent, ProfileRanges)
         IN  AddFrame(in.angles, in.validations, <<A1>>, in.angle_ranges)
    /\ UNCHANGED detectorVars

MixNext == MixAddFrame

MixSpec == StreakInit /\ [][MixNext]_vars

(***************************************************************************)
(* StatusSpec: the frame loop of the webcam session: frames of one angle,  *)
(* the safety status read for the overlay at any point                     *)
(***************************************************************************)
StatusInit ==
    /\ ScorerInit({<<"arm_raise", DefaultThresholds>>,
                   <<"arm_raise", EagerThresholds>>})
    /\ DetectorInit({"arm_raise"})

StatusNext == StreakAddFrame \/ DoGetSafetyStatus

StatusSpec == StatusInit /\ [][StatusNext]_vars

(***************************************************************************)
(* PhaseSpec: one PhaseDetector, any detect_phase calls                    *)
(***************************************************************************)
PhaseValues == {10, 30, 45, 60, 120, 130}

PhaseInit ==
    /\ ScorerInit({<<"arm_raise", DefaultThresholds>>})
    /\ DetectorInit(KnownExercises \cup {UnknownExercise})

\* the callers pass the 0-based (demo.py) or the 1-based (webcam_demo.py)
\* index of the frame
DoDetectPhase ==
    /\ Len(pd_calls) < MaxCalls
    /\ \E angle_value \in PhaseValues :
         \E fc \in {Len(pd_calls), Len(pd_calls) + 1} :
            DetectPhase(angle_value, fc)
    /\ UNCHANGED scorerVars

PhaseNext == DoDetectPhase

PhaseSpec == PhaseInit /\ [][PhaseNext]_vars

(***************************************************************************)
(* PhaseInfoSpec: a PhaseDetector with thresholds, detect_phase and        *)
(* get_phase_info called in any order                                      *)
(***************************************************************************)
PhaseInfoInit ==
    /\ ScorerInit({<<"arm_raise", DefaultThresholds>>})
    /\ DetectorInit({"arm_raise", "shoulder_rotation"})

DoGetPhaseInfo ==
    /\ GetPhaseInfo
    /\ UNCHANGED <<exercise_name, escalation_thresholds, frames,
                   safety_violations, violation_counts, current_warning_level,
                   frame_count, violation_tracking>>

PhaseInfoNext == DoDetectPhase \/ DoGetPhaseInfo

PhaseInfoSpec == PhaseInfoInit /\ [][PhaseInfoNext]_vars

(***************************************************************************)
(* DemoSpec: the session run_demo drives: every frame carries the angles   *)
(* simulated for the exercise, flagged by the caller against the profile   *)
(***************************************************************************)
\* frames added by one run_demo call (num_frames)
MaxDemoFrames == 3

\* the keys of base, in insertion order
DemoAngleOrder(exercise) ==
    CASE exercise = "arm_raise" -> <<A1, A2>>
      [] exercise = "shoulder_rotation" -> <<"shoulder_internal", "shoulder_external">>
      [] OTHER -> <<A2>>

\* exercise.angle_ranges of the selected profile
DemoProfile(exercise) ==
    CASE exercise = "arm_raise" -> ProfileRanges
      [] exercise = "shoulder_rotation" ->
            [a \in {"shoulder_internal_rotation", "shoulder_external_rotation"} |->
                <<0, 60>>]
      [] OTHER -> [a \in {A2} |-> ProfileRanges[a]]

\* value + variation, in whole degrees: below, on and above the bounds
SimulatedValues(angle_name) ==
    CASE angle_name = A1 -> {30, 40, 70, 100, 110}
      [] angle_name = A2 -> {10, 50, 70}
      [] OTHER -> {10, 70}

\* variant: the bounds of the safe range are excluded
MockValidationsStrict(simulated_angles, angle_ranges) ==
    [a \in (DOMAIN simulated_angles) \cap (DOMAIN angle_ranges) |->
        angle_ranges[a][1] < simulated_angles[a]
            /\ simulated_angles[a] < angle_ranges[a][2]]

\* "Mock validations": the flag of every simulated angle the profile ranges
MockValidations(simulated_angles, angle_ranges) ==
    [a \in (DOMAIN simulated_angles) \cap (DOMAIN angle_ranges) |->
        angle_ranges[a][1] <= simulated_angles[a]
            /\ simulated_angles[a] <= angle_ranges[a][2]]

\* the names in order that are keys of d
RECURSIVE KeysInOrder(_, _)
KeysInOrder(order, d) ==
    IF order = << >> THEN << >>
    ELSE IF Head(order) \in DOMAIN d
    THEN <<Head(order)>> \o KeysInOrder(Tail(order), d)
    ELSE KeysInOrder(Tail(order), d)

DemoInit ==
    /\ ScorerInit({<<e, DefaultThresholds>> : e \in KnownExercises})
    /\ DetectorInit({"arm_raise"})

\* one iteration of the frame loop, up to scorer.add_frame
DemoAddFrame ==
    /\ frame_count < MaxDemoFrames
    /\ \E simulated_angles \in
            [{DemoAngleOrder(exercise_name)[i] :
                 i \in 1..Len(DemoAngleOrder(exercise_name))}
               -> UNION {SimulatedValues(a) : a \in {A1, A2, "shoulder_internal"}}] :
          /\ \A a \in DOMAIN simulated_angles :
                 simulated_angles[a] \in SimulatedValues(a)
          /\ LET validations ==
                     MockValidations(simulated_angles, DemoProfile(exercise_name))
             IN  AddFrame(simulated_angles, validations,
                          KeysInOrder(DemoAngleOrder(exercise_name), validations),
                          DemoProfile(exercise_name))
    /\ UNCHANGED detectorVars

\* "Final score": scorer.get_summary()
DemoGetSummary == GetSummary /\ UNCHANGED detectorVars

DemoNext == DemoAddFrame \/ DemoGetSummary

DemoSpec == DemoInit /\ [][DemoNext]_vars

(***************************************************************************)
(* realtime_feedback: get_angle_feedback, get_phase_feedback and           *)
(* generate_feedback.  A feedback string is kept as the record of the      *)
(* parts it is formatted from:                                             *)
(*   f"{severity} {direction}".strip()   [severity, direction]             *)
(*   f"Hold position ({n} frames)"       [text, n]                         *)
(*   f"[{phase}] {phase_feedback}"       [tag, message]                    *)
(*   a literal                           [text]                            *)
(***************************************************************************)
NoFeedback == [has |-> FALSE]

A3 == "shoulder_internal_rotation"

A4 == "shoulder_external_rotation"

\* the phrase for a value below min_angle
DirectionBelow(angle_name) ==
    CASE angle_name = A1 -> "Raise arm higher"
      [] angle_name = A2 -> "Bend elbow more"
      [] angle_name = A3 -> "Rotate shoulder internally more"
      [] angle_name = A4 -> "Rotate shoulder externally more"
      [] OTHER -> ""

\* the phrase for a value above max_angle
DirectionAbove(angle_name) ==
    CASE angle_name = A1 -> "Lower arm"
      [] angle_name = A2 -> "Straighten elbow"
      [] angle_name = A3 -> "Reduce internal rotation"
      [] angle_name = A4 -> "Reduce external rotation"
      [] OTHER -> ""

\* None (has = FALSE) for a safe value, else the stripped "severity direction"
GetAngleFeedback(angle_name, angle_value, min_angle, max_angle) ==
    IF min_angle <= angle_value /\ angle_value <= max_angle THEN NoFeedback
    ELSE
        LET below == angle_value < min_angle
            deviation == IF below THEN min_angle - angle_value
                         ELSE angle_value - max_angle
            direction == IF below THEN DirectionBelow(angle_name)
                         ELSE DirectionAbove(angle_name)
            severity == IF deviation > 30 THEN "significantly"
                        ELSE IF deviation > 15 THEN ""
                        ELSE "slightly"
        IN  [has |-> TRUE, severity |-> severity, direction |-> direction]

\* "if feedback:" - None and the empty string add nothing
IsTruthyFeedback(feedback) ==
    feedback.has /\ ~(feedback.severity = "" /\ feedback.direction = "")

\* the phase message, None (has = FALSE) when no rule of the table applies
GetPhaseFeedback(exercise, phase_info, angle_value) ==
    LET phase == DictGet(phase_info, "phase", "NEUTRAL")
        hf == DictGet(phase_info, "hold_frames", 0)
        Plain(text) == [has |-> TRUE, text |-> text]
        Held(text) == [has |-> TRUE, text |-> text, n |-> hf]
    IN  CASE exercise = "arm_raise" ->
               (CASE phase = "RAISE" /\ hf < 5 -> Plain("Continue raising arm")
                  [] phase = "HOLD" /\ hf < 30 -> Held("Hold position ({} frames)")
                  [] phase = "HOLD" /\ hf >= 30 -> Plain("Good hold! Begin lowering")
                  [] phase = "LOWER" /\ angle_value > 50 -> Plain("Continue lowering slowly")
                  [] phase = "LOWER" /\ angle_value <= 50 -> Plain("Return to neutral")
                  [] OTHER -> NoFeedback)
          [] exercise = "elbow_flexion" ->
               (CASE phase = "RAISE" /\ hf < 5 -> Plain("Continue bending elbow")
                  [] phase = "HOLD" /\ hf < 30 -> Held("Hold bend ({} frames)")
                  [] phase = "HOLD" /\ hf >= 30 -> Plain("Good hold! Begin straightening")
                  [] phase = "LOWER" /\ angle_value > 50 -> Plain("Continue straightening")
                  [] OTHER -> NoFeedback)
          [] exercise = "shoulder_rotation" ->
               (CASE phase = "RAISE" /\ hf < 5 -> Plain("Continue rotating")
                  [] phase = "HOLD" /\ hf < 30 -> Held("Hold rotation ({} frames)")
                  [] phase = "HOLD" /\ hf >= 30 -> Plain("Good hold! Return to neutral")
                  [] OTHER -> NoFeedback)
          [] OTHER -> NoFeedback

\* str.lower() on the names passed as exercise_name
Lower(name) ==
    CASE name = "Arm_Raise" -> "arm_raise"
      [] OTHER -> name

\* the feedback without its has-flag: the string as it is put in the list
Text(feedback) == [k \in DOMAIN feedback \ {"has"} |-> feedback[k]]

\* feedbacks after "if feedback: feedbacks.append(feedback)"
AppendFeedback(feedbacks, feedback) ==
    IF IsTruthyFeedback(feedback) THEN Append(feedbacks, Text(feedback))
    ELSE feedbacks

\* variant: the phase message is put after the angle messages
WithPhaseMessageLast(feedbacks, phase, phase_feedback) ==
    Append(feedbacks, [tag |-> phase, message |-> Text(phase_feedback)])

\* feedbacks.insert(0, f"[{phase}] {phase_feedback}")
WithPhaseMessage(feedbacks, phase, phase_feedback) ==
    <<[tag |-> phase, message |-> Text(phase_feedback)]>> \o feedbacks

\* variant: an empty list is returned as it is
OrGoodFormNever(feedbacks) == feedbacks

\* "if not feedbacks: feedbacks.append('Good form')"
OrGoodForm(feedbacks) ==
    IF feedbacks = << >> THEN <<[text |-> "Good form"]>> ELSE feedbacks

\* landmarks stands for the angles the physio_exercises functions compute
\* from it: [shoulder_abduction, elbow_flexion, internal, external];
\* phase_info is [given |-> FALSE] for None, else [given |-> TRUE, dict |-> d]
GenerateFeedback(name, landmarks, phase_info) ==
    IF Lower(name) \notin KnownExercises THEN <<[text |-> "Invalid exercise"]>>
    ELSE
        LET angle_ranges == DemoProfile(Lower(name))
            Has(a) == a \in DOMAIN angle_ranges
            hasPrimary == Has(A1) \/ Has(A2)
            primary_angle == IF Has(A1) THEN landmarks.shoulder_abduction
                             ELSE landmarks.elbow_flexion
            f1 == IF Has(A1)
                  THEN AppendFeedback(<< >>,
                           GetAngleFeedback(A1, landmarks.shoulder_abduction,
                               angle_ranges[A1][1], angle_ranges[A1][2]))
                  ELSE << >>
            f2 == IF Has(A2)
                  THEN AppendFeedback(f1,
                           GetAngleFeedback(A2, landmarks.elbow_flexion,
                               angle_ranges[A2][1], angle_ranges[A2][2]))
                  ELSE f1
            f3 == IF Has(A3)
                  THEN AppendFeedback(f2,
                           GetAngleFeedback(A3, landmarks.internal,
                               angle_ranges[A3][1], angle_ranges[A3][2]))
                  ELSE f2
            f4 == IF Has(A4)
                  THEN AppendFeedback(f3,
                           GetAngleFeedback(A4, landmarks.external,
                               angle_ranges[A4][1], angle_ranges[A4][2]))
                  ELSE f3
            truthy == phase_info.given /\ DOMAIN phase_info.dict # {}
            f5 == IF truthy /\ hasPrimary
                  THEN LET phase_feedback ==
                               GetPhaseFeedback(name, phase_info.dict, primary_angle)
                       IN  IF phase_feedback.has
                           THEN WithPhaseMessage(f4,
                                    DictGet(phase_info.dict, "phase", "NEUTRAL"),
                                    phase_feedback)
                           ELSE f4
                  ELSE f4
        IN  OrGoodForm(f5)

(***************************************************************************)
(* FeedbackSpec: generate_feedback applied to any exercise name, angles    *)
(* and phase info                                                          *)
(***************************************************************************)
FeedbackNames == KnownExercises \cup {UnknownExercise, "Arm_Raise"}

\* below, on and above the safe ranges, by up to 15, up to 30 and more
FeedbackLandmarks ==
    [shoulder_abduction : {0, 20, 30, 45, 70, 110, 140},
     elbow_flexion : {10, 50, 70, 120},
     internal : {30, 70},
     external : {30, 100}]

HoldValues == {0, 4, 5, 29, 30}

PhaseInfos ==
    {[given |-> FALSE]}
        \cup {[given |-> TRUE, dict |-> d] :
                d \in {EmptyDict} \cup {[phase |-> "HOLD"], [hold_frames |-> 5]}
                      \cup [phase : {"RAISE", "HOLD", "LOWER", "NEUTRAL"},
                            hold_frames : HoldValues]}

FeedbackInit ==
    /\ ScorerInit({<<"arm_raise", DefaultThresholds>>})
    /\ DetectorInit({"arm_raise"})

\* one call, on the inputs chosen
DoGenerateFeedback ==
    /\ last_call = NoCall
    /\ \E name \in FeedbackNames, landmarks \in FeedbackLandmarks,
          phase_info \in PhaseInfos :
          last_call' = [op |-> "generate_feedback", exercise_name |-> name,
                        landmarks |-> landmarks, phase_info |-> phase_info,
                        result |-> GenerateFeedback(name, landmarks, phase_info)]
    /\ UNCHANGED <<exercise_name, escalation_thresholds, frames,
                   safety_violations, violation_counts, current_warning_level,
                   frame_count, violation_tracking>>
    /\ UNCHANGED detectorVars

FeedbackNext == DoGenerateFeedback

FeedbackSpec == FeedbackInit /\ [][FeedbackNext]_vars

(***************************************************************************)
(* Vocabulary of the properties                                            *)
(***************************************************************************)
SeverityRank(s) ==
    CASE s = "low" -> 1 [] s = "medium" -> 2 [] s = "high" -> 3 [] s = "critical" -> 4

\* the step is an add_frame call
IsAddFrameStep == frame_count' = frame_count + 1

\* the add_frame call recorded in call c observes angle a unsafe
ObservedUnsafe(c, a) ==
    /\ a \in DOMAIN c.validations
    /\ a \in DOMAIN c.angles
    /\ a \in DOMAIN c.angle_ranges
    /\ ~c.validations[a]

\* the severity of that observation
ObservedSeverity(c, a) ==
    SeverityOf(Deviation(c.angles[a], c.angle_ranges[a][1], c.angle_ranges[a][2]))

\* the counter of angle a for severity s (a counter not yet created counts 0)
Counter(tracking, s, a) == DictGet(tracking[s], a, 0)

\* the number of logged violations of angle a
LoggedFor(log, a) == Cardinality({i \in 1..Len(log) : log[i].angle_name = a})

\* the severity of the unsafe observation of A1 stored in frame f
FrameSeverity(f) ==
    SeverityOf(Deviation(f.angles[A1], ProfileRanges[A1][1], ProfileRanges[A1][2]))

\* the session so far is n consecutive frames with A1 unsafe at severity s
IsStreak(s, n) ==
    /\ Len(frames) = n
    /\ \A i \in 1..n :
         /\ A1 \in DOMAIN frames[i].validations
         /\ ~frames[i].validations[A1]
         /\ FrameSeverity(frames[i]) = s

(***************************************************************************)
(* C1: with the default thresholds, threshold[S]-1 consecutive frames with *)
(* one angle unsafe at severity S log no SafetyViolation, and the          *)
(* threshold[S]-th logs exactly one (S in low, medium, high).              *)
(***************************************************************************)
C1_EscalationAtThreshold ==
    escalation_thresholds = DefaultThresholds =>
        \A s \in {"low", "medium", "high"} :
            /\ IsStreak(s, DefaultThresholds[s] - 1) => Len(safety_violations) = 0
            /\ IsStreak(s, DefaultThresholds[s]) => Len(safety_violations) = 1

(***************************************************************************)
(* C2: current_warning_level never decreases, whatever the call.           *)
(***************************************************************************)
C2_WarningLevelMonotone ==
    [][current_warning_level' >= current_warning_level]_vars

\* a low-severity escalation logged while the level stands at 3
C2_Witness ==
    /\ current_warning_level = 3
    /\ safety_violations # << >>
    /\ Last(safety_violations).severity = "low"

(***************************************************************************)
(* C3: an unsafe observation of an angle at severity S adds exactly 1 to   *)
(* the angle's counter for S, sets its counters for the severities below S *)
(* to 0 and leaves its counters for the severities above S unchanged.      *)
(***************************************************************************)
C3_CounterUpdate ==
    [][IsAddFrameStep =>
        \A a \in {A1, A2} :
            ObservedUnsafe(last_call', a) =>
                LET sev == ObservedSeverity(last_call', a)
                IN  \A s \in Severities :
                        Counter(violation_tracking', s, a) =
                            IF s = sev
                            THEN Counter(violation_tracking, s, a) + 1
                            ELSE IF SeverityRank(s) < SeverityRank(sev) THEN 0
                            ELSE Counter(violation_tracking, s, a)]_vars

(***************************************************************************)
(* C4: a frame in which an angle is flagged safe leaves every severity     *)
(* counter of the angle unchanged; so, with the default high threshold 3,  *)
(* k high frames (k < 3), one safe frame and 3-k more high frames on the   *)
(* same angle log a SafetyViolation on the last of them.                   *)
(***************************************************************************)
\* fs is k high-severity frames, one safe frame, 3-k high-severity frames
IsHighSafeHigh(fs) ==
    /\ Len(fs) = DefaultThresholds["high"] + 1
    /\ \E k \in 0..(DefaultThresholds["high"] - 1) :
         \A i \in 1..Len(fs) :
            /\ A1 \in DOMAIN fs[i].validations
            /\ IF i = k + 1
               THEN fs[i].validations[A1]
               ELSE ~fs[i].validations[A1] /\ FrameSeverity(fs[i]) = "high"

C5_RepeatedEscalation ==
    [][IsAddFrameStep =>
        \A a \in {A1, A2} :
            ObservedUnsafe(last_call', a) =>
                LET sev == ObservedSeverity(last_call', a)
                    threshold == DictGet(escalation_thresholds, sev, 5)
                IN  /\ Counter(violation_tracking, sev, a) >= threshold
                        => LoggedFor(safety_violations', a)
                               = LoggedFor(safety_violations, a) + 1
                    /\ LoggedFor(safety_violations', a)
                           > LoggedFor(safety_violations, a)
                        => Counter(violation_tracking', sev, a) >= threshold]_vars

\* A1 escalated on its second and again on its third high frame, the third
\* one a frame in which A2 was unsafe as well
C5_Witness ==
    /\ escalation_thresholds["high"] = 2
    /\ Counter(violation_tracking, "high", A1) = 3
    /\ LoggedFor(safety_violations, A1) = 2
    /\ last_call.op = "add_frame"
    /\ ObservedUnsafe(last_call, A1)
    /\ ObservedUnsafe(last_call, A2)

(***************************************************************************)
(* C6: detect_phase follows the transition table: at or above              *)
(* raise_complete NEUTRAL and LOWER go to RAISE with hold counter 0, RAISE *)
(* and HOLD go to HOLD with hold counter +1; at or below lower_complete    *)
(* every phase goes to LOWER with hold counter 0; in between LOWER goes to *)
(* RAISE with the hold counter unchanged, RAISE and HOLD go to HOLD with   *)
(* hold counter +1, NEUTRAL stays and nothing changes.                     *)
(***************************************************************************)
IsDetectStep == Len(pd_calls') = Len(pd_calls) + 1

C6_TransitionTable ==
    [][(IsDetectStep /\ thresholds # EmptyDict) =>
        LET v == Last(pd_calls').angle_value
            rc == thresholds["raise_complete"]
            lc == thresholds["lower_complete"]
        IN  /\ rc > lc
            /\ Last(pd_calls').result = current_phase'
            /\ IF v >= rc
               THEN IF current_phase \in {"NEUTRAL", "LOWER"}
                    THEN current_phase' = "RAISE" /\ hold_frames' = 0
                    ELSE current_phase' = "HOLD" /\ hold_frames' = hold_frames + 1
               ELSE IF v <= lc
               THEN current_phase' = "LOWER" /\ hold_frames' = 0
               ELSE CASE current_phase = "LOWER" ->
                            current_phase' = "RAISE" /\ hold_frames' = hold_frames
                      [] current_phase \in {"RAISE", "HOLD"} ->
                            current_phase' = "HOLD" /\ hold_frames' = hold_frames + 1
                      [] OTHER ->
                            /\ current_phase' = "NEUTRAL"
                            /\ UNCHANGED <<current_phase, phase_start_frame,
                                           hold_frames, last_angle, thresholds>>]_vars

\* a detector that went LOWER with a non-zero hold counter, then RAISE on a
\* value between the thresholds, then HOLD
C6_Witness ==
    /\ Len(pd_calls) = 4
    /\ pd_calls[1].result = "RAISE"
    /\ pd_calls[2].result = "HOLD"
    /\ pd_calls[3].result = "LOWER"
    /\ pd_calls[4].result = "RAISE"
    /\ pd_calls[4].angle_value < thresholds["raise_complete"]

(***************************************************************************)
(* C7: a strictly increasing sequence that crosses raise_complete, fed to  *)
(* a fresh detector, gives NEUTRAL until the first value at or above       *)
(* raise_complete, RAISE on that frame, HOLD on every later frame, and     *)
(* hold_frames grows by exactly 1 on every HOLD frame.                     *)
(***************************************************************************)
\* the calls so far fed a strictly increasing sequence that reaches rc
IsIncreasingCrossing(rc) ==
    /\ pd_calls # << >>
    /\ \A i \in 1..(Len(pd_calls) - 1) :
          pd_calls[i].angle_value < pd_calls[i + 1].angle_value
    /\ pd_calls[1].angle_value < rc
    /\ Last(pd_calls).angle_value >= rc

\* the hold counter before call i
HoldBefore(i) == IF i = 1 THEN 0 ELSE pd_calls[i - 1].hold_frames

\* call i is the first one with a value at or above rc
IsFirstRaised(i, rc) ==
    /\ pd_calls[i].angle_value >= rc
    /\ \A j \in 1..(i - 1) : pd_calls[j].angle_value < rc

NeutralRaiseHold(rc) ==
    \A i \in 1..Len(pd_calls) :
        IF pd_calls[i].angle_value < rc
        THEN pd_calls[i].result = "NEUTRAL"
        ELSE IF IsFirstRaised(i, rc)
        THEN pd_calls[i].result = "RAISE"
        ELSE /\ pd_calls[i].result = "HOLD"
             /\ pd_calls[i].hold_frames = HoldBefore(i) + 1

\* the claim as stated
C7_IncreasingSequence ==
    (thresholds # EmptyDict /\ IsIncreasingCrossing(thresholds["raise_complete"]))
        => NeutralRaiseHold(thresholds["raise_complete"])

\* amended: for sequences whose values all lie above lower_complete
C7_IncreasingAboveLower ==
    (/\ thresholds # EmptyDict
     /\ IsIncreasingCrossing(thresholds["raise_complete"])
     /\ pd_calls[1].angle_value > thresholds["lower_complete"])
        => NeutralRaiseHold(thresholds["raise_complete"])

\* NEUTRAL, RAISE, HOLD with hold_frames 1, HOLD with hold_frames 2
C7_Witness ==
    /\ thresholds # EmptyDict
    /\ IsIncreasingCrossing(thresholds["raise_complete"])
    /\ pd_calls[1].angle_value > thresholds["lower_complete"]
    /\ Len(pd_calls) = 4
    /\ pd_calls[1].result = "NEUTRAL"
    /\ pd_calls[2].result = "RAISE"
    /\ pd_calls[4].result = "HOLD"
    /\ hold_frames = 2

(***************************************************************************)
(* C8: a detector for an exercise without an entry in the threshold table  *)
(* returns NEUTRAL from every call and keeps current_phase, hold_frames    *)
(* and phase_start_frame at NEUTRAL, 0, 0.                                 *)
(***************************************************************************)
C8_NoThresholdsNeutral ==
    pd_exercise \notin DOMAIN PHASE_THRESHOLDS =>
        /\ \A i \in 1..Len(pd_calls) : pd_calls[i].result = "NEUTRAL"
        /\ current_phase = "NEUTRAL"
        /\ hold_frames = 0
        /\ phase_start_frame = 0

\* such a detector after calls above the raise and below the lower default
C8_Witness ==
    /\ pd_exercise = UnknownExercise
    /\ Len(pd_calls) >= 2
    /\ \E i, j \in 1..Len(pd_calls) :
          /\ pd_calls[i].angle_value >= 120
          /\ pd_calls[j].angle_value <= 30
          /\ pd_calls[j].frame_count > 0

(***************************************************************************)
(* C9: an angle absent from the angles map or from the validity-flag map   *)
(* of a frame is skipped: add_frame changes none of its counters and logs  *)
(* no SafetyViolation for it, and calculate_score and get_summary still    *)
(* return a score afterwards.                                              *)
(***************************************************************************)
\* the call returned (a score, a summary) instead of raising
Returned(c) ==
    c.op \in {"calculate_score", "get_summary"} => "value" \in DOMAIN c.result

C9_MissingAngleSkipped ==
    [][/\ IsAddFrameStep =>
            \A a \in {A1, A2} :
                (a \notin DOMAIN last_call'.angles
                    \/ a \notin DOMAIN last_call'.validations)
                    => /\ \A s \in Severities :
                             Counter(violation_tracking', s, a)
                                 = Counter(violation_tracking, s, a)
                       /\ LoggedFor(safety_violations', a)
                              = LoggedFor(safety_violations, a)
       /\ Returned(last_call')]_vars

(***************************************************************************)
(* C10: a SessionScorer created for an exercise name without a profile     *)
(* signals it: it accepts no frames and returns no empty-but-valid summary *)
(* (total_frames = 0, score = 0).                                          *)
(***************************************************************************)
\* the call returned the summary of an empty session
IsEmptySummary(c) ==
    /\ c.op = "get_summary"
    /\ "value" \in DOMAIN c.result
    /\ c.result.value.total_frames = 0
    /\ c.result.value.score = 0

C10_UnknownExerciseSignalled ==
    exercise_name \notin KnownExercises =>
        /\ frames = << >>
        /\ ~IsEmptySummary(last_call)

(***************************************************************************)
(* C11: current_warning_level is an integer in 0..4; no sequence of        *)
(* add_frame calls logs a SafetyViolation of severity critical or sets the *)
(* warning level to 4.                                                     *)
(***************************************************************************)
C11_NeverCritical ==
    /\ current_warning_level \in 0..4
    /\ current_warning_level # 4
    /\ \A i \in 1..Len(safety_violations) :
          /\ safety_violations[i].severity # "critical"
          /\ safety_violations[i].escalation_level # 4

\* the strongest deviation the inputs carry has escalated: level 3, not 4
C11_Witness ==
    /\ current_warning_level = 3
    /\ safety_violations # << >>
    /\ Last(safety_violations).severity = "high"
    /\ Last(safety_violations).angle_value = 0

(***************************************************************************)
(* C12: in every stored frame, the safe-flag of every angle present equals *)
(* (minSafe <= value <= maxSafe) for the safe range passed with the frame. *)
(***************************************************************************)
\* the flag frame f stores for angle a agrees with its value and the range
FlagAgrees(f, a, ranges) ==
    f.validations[a] = (ranges[a][1] <= f.angles[a] /\ f.angles[a] <= ranges[a][2])

QueryOps ==
    {"get_safety_status", "get_violation_summary", "calculate_score", "get_summary"}

C13_QueriesReadOnly ==
    [][last_call'.op \in QueryOps
          => UNCHANGED <<frames, frame_count, safety_violations, violation_counts,
                         violation_tracking, current_warning_level>>]_vars

\* a status query answered on a session with frames, streaks and violations
C13_Witness ==
    /\ last_call.op = "get_safety_status"
    /\ Len(frames) >= 2
    /\ safety_violations # << >>
    /\ last_call.result.recent_violations = safety_violations
    /\ \E s \in Severities : \E a \in DOMAIN violation_tracking[s] :
          violation_tracking[s][a] > 0

(***************************************************************************)
(* C14: after n add_frame calls the history holds n frames, frame_count is *)
(* n and the i-th frame has number i; add_frame only appends the frame it  *)
(* was given, and nothing else changes the history.                        *)
(***************************************************************************)
HistoryNumbered ==
    /\ Len(frames) = frame_count
    /\ \A i \in 1..Len(frames) : frames[i].frame = i

AppendsOnly ==
    IF last_call'.op = "add_frame"
    THEN /\ frame_count' = frame_count + 1
         /\ Len(frames') = Len(frames) + 1
         /\ SubSeq(frames', 1, Len(frames)) = frames
         /\ Last(frames').angles = last_call'.angles
         /\ Last(frames').validations = last_call'.validations
    ELSE UNCHANGED <<frames, frame_count>>

C14_HistoryAppendOnly == []HistoryNumbered /\ [][AppendsOnly]_vars

\* three frames stored, the third unlike the first
C14_Witness ==
    /\ frame_count = 3
    /\ Len(frames) = 3
    /\ frames[3].frame = 3
    /\ frames[3].angles # frames[1].angles
    /\ last_call.op = "add_frame"

(***************************************************************************)
(* C15: the violation summary agrees with the violation log:               *)
(* total_violations = escalation_events = sum of by_severity = sum of      *)
(* by_angle = length of the log, and highest_warning_level is the current  *)
(* warning level, which is the greatest escalation_level logged (0 for an  *)
(* empty log).                                                             *)
(***************************************************************************)
\* the sum of the values of dict d
RECURSIVE DictSum(_)
DictSum(d) ==
    IF DOMAIN d = {} THEN 0
    ELSE LET k == CHOOSE x \in DOMAIN d : TRUE
         IN  d[k] + DictSum([x \in DOMAIN d \ {k} |-> d[x]])

\* the greatest escalation_level of log is level; 0 for the empty log
IsMaxEscalationLevel(log, level) ==
    IF log = << >> THEN level = 0
    ELSE /\ \E i \in 1..Len(log) : log[i].escalation_level = level
         /\ \A i \in 1..Len(log) : log[i].escalation_level <= level

C15_SummaryConsistent ==
    LET summary == ViolationSummary
        n == Len(safety_violations)
    IN  /\ summary.total_violations = n
        /\ summary.escalation_events = n
        /\ DictSum(summary.by_severity) = n
        /\ DictSum(summary.by_angle) = n
        /\ summary.highest_warning_level = current_warning_level
        /\ IsMaxEscalationLevel(safety_violations, current_warning_level)

\* violations of two angles and two severities logged, the summary queried
C15_Witness ==
    /\ last_call.op = "get_violation_summary"
    /\ last_call.result = ViolationSummary
    /\ Cardinality(DOMAIN last_call.result.by_angle) = 2
    /\ last_call.result.by_severity["low"] >= 1
    /\ last_call.result.by_severity["high"] >= 1
    /\ last_call.result.total_violations >= 3

(***************************************************************************)
(* C16: get_safety_status returns the current warning level, is_safe true  *)
(* exactly when that level is below 2, the text the fixed table gives the  *)
(* level, and as recent_violations the last min(5, n) entries of the       *)
(* n-entry violation log, in log order.                                    *)
(***************************************************************************)
\* text is the entry of the warning table for level
IsTableText(level, text) ==
    /\ level = 0 => text = "SAFE"
    /\ level = 1 => text = "CAUTION: Minor deviation detected"
    /\ level = 2 => text = "WARNING: Moderate deviation - adjust position"
    /\ level = 3 => text = "HIGH WARNING: Significant deviation - slow down"
    /\ level = 4 => text = "CRITICAL: Stop exercise immediately"

\* recent is the tail of log of length min(5, Len(log))
IsRecentTail(log, recent) ==
    /\ Len(recent) = Min2(5, Len(log))
    /\ \A j \in 1..Len(recent) : recent[j] = log[Len(log) - Len(recent) + j]

C16_SafetyStatusContent ==
    last_call.op = "get_safety_status" =>
        /\ last_call.result.warning_level = current_warning_level
        /\ last_call.result.is_safe = (current_warning_level < 2)
        /\ IsTableText(current_warning_level, last_call.result.warning_text)
        /\ IsRecentTail(safety_violations, last_call.result.recent_violations)

\* the status read with more than five violations logged
C16_Witness ==
    /\ last_call.op = "get_safety_status"
    /\ Len(safety_violations) >= 7
    /\ Len(last_call.result.recent_violations) = 5
    /\ last_call.result.recent_violations[1] = safety_violations[Len(safety_violations) - 4]
    /\ last_call.result.warning_level = 3
    /\ ~last_call.result.is_safe

(***************************************************************************)
(* C17: after any sequence of add_frame calls, the empty one included,     *)
(* calculate_score returns a value in the closed range [0, 100].           *)
(***************************************************************************)
\* result carries a score between 0 and 100 (scores are in hundredths)
IsScoreInRange(result) ==
    /\ "value" \in DOMAIN result
    /\ 0 <= result.value
    /\ result.value <= 10000

\* when the call returns at all, what it returns is in range
ReturnedScoreInRange ==
    (last_call.op = "calculate_score" /\ "value" \in DOMAIN last_call.result)
        => IsScoreInRange(last_call.result)

C17_ScoreInRange ==
    last_call.op = "calculate_score" => IsScoreInRange(last_call.result)

(***************************************************************************)
(* C19: a session of at least one frame in which every frame has all its   *)
(* angles flagged safe, every angle keeps one value through all frames and *)
(* no violation was logged scores exactly 100.                             *)
(***************************************************************************)
IsPerfectSession ==
    /\ frames # << >>
    /\ \A i \in 1..Len(frames) :
          /\ AllSafe(frames[i])
          /\ frames[i].angles = frames[1].angles
    /\ safety_violations = << >>

C19_PerfectSessionScores100 ==
    (last_call.op = "calculate_score" /\ IsPerfectSession)
        => last_call.result = [value |-> 10000]

\* three safe frames holding shoulder_abduction at 70, then the score
C19_Witness ==
    /\ last_call.op = "calculate_score"
    /\ IsPerfectSession
    /\ Len(frames) = 3
    /\ A1 \in DOMAIN frames[1].angles
    /\ frames[1].angles[A1] = 70
    /\ frames[1].validations # frames[2].validations

(***************************************************************************)
(* C20: on a scorer add_frame was never called on, calculate_score returns *)
(* 0 and get_summary returns total_frames = 0, safe_frames = 0 and         *)
(* score = 0; neither raises.                                              *)
(***************************************************************************)
C20_EmptySession ==
    frame_count = 0 =>
        /\ last_call.op = "calculate_score" => last_call.result = [value |-> 0]
        /\ last_call.op = "get_summary" =>
              /\ "value" \in DOMAIN last_call.result
              /\ last_call.result.value.total_frames = 0
              /\ last_call.result.value.safe_frames = 0
              /\ last_call.result.value.score = 0

\* the summary of a session without frames
C20_Witness ==
    /\ frame_count = 0
    /\ frames = << >>
    /\ last_call.op = "get_summary"
    /\ last_call.result.value.safety.total_violations = 0

(***************************************************************************)
(* C21: for a session with at least one frame, calculate_score returns     *)
(* 0.5 x completionQuality + 0.3 x averageConsistency                      *)
(* + 0.2 x (100 - violationPenalty), clamped to [0, 100], with             *)
(* completionQuality = 100 x all-safe frames / frames, violationPenalty =  *)
(* min(30, 2 x logged escalations), averageConsistency the mean over the   *)
(* angle names of frame 1 of max(0, 100 - variance), 100 for one sample.   *)
(* The value is compared to the two decimals the score is reported with.   *)
(***************************************************************************)
\* n * (n - 1) * the sample variance of angle a over the frames, as the sum
\* of the squared differences of all pairs of frames
PairwiseSquares(a) ==
    LET pairs == {p \in (1..Len(frames)) \X (1..Len(frames)) : p[1] < p[2]}
    IN  DictSum([p \in pairs |->
                    (frames[p[1]].angles[a] - frames[p[2]].angles[a])
                        * (frames[p[1]].angles[a] - frames[p[2]].angles[a])])

\* the claimed score in hundredths, before clamping, as <<numerator, denominator>>
ClaimedScore ==
    LET total == Len(frames)
        safe == Cardinality({i \in 1..total :
                    \A a \in DOMAIN frames[i].validations : frames[i].validations[a]})
        penalty == IF 2 * Len(safety_violations) < 30
                   THEN 2 * Len(safety_violations) ELSE 30
        names == DOMAIN frames[1].angles
        d == IF total > 1 THEN total * (total - 1) ELSE 1
        consistency == [a \in names |->
                           IF total = 1 THEN 100
                           ELSE IF PairwiseSquares(a) > 100 * d THEN 0
                           ELSE 100 * d - PairwiseSquares(a)]
        acn == IF names = {} THEN 100 ELSE DictSum(consistency)
        acd == IF names = {} THEN 1 ELSE Cardinality(names) * d
    IN  <<5000 * safe * acd + 30 * acn * total + 20 * (100 - penalty) * total * acd,
          total * acd>>

\* value (hundredths) is the clamped fraction, to the nearest hundredth
IsClaimedScore(value) ==
    LET den == ClaimedScore[2]
        num == Max2(0, Min2(10000 * den, ClaimedScore[1]))
    IN  2 * Abs(value * den - num) <= den

\* whenever a score is returned for a non-empty session, it is the claimed one
ReturnedScoreIsClaimed ==
    (/\ last_call.op = "calculate_score"
     /\ frames # << >>
     /\ "value" \in DOMAIN last_call.result)
        => IsClaimedScore(last_call.result.value)

C21_ScoreFormula ==
    (last_call.op = "calculate_score" /\ frames # << >>)
        => /\ "value" \in DOMAIN last_call.result
           /\ IsClaimedScore(last_call.result.value)

(***************************************************************************)
(* C22: generate_feedback never returns an empty list: for every exercise, *)
(* every combination of angle values and every phase info (or none) the    *)
(* result has at least one string, and when no angle is outside its safe   *)
(* range and no phase message applies it is exactly ["Good form"].         *)
(***************************************************************************)
IsFeedbackCall == last_call.op = "generate_feedback"

IsPhaseMessage(m) == "tag" \in DOMAIN m

IsAngleMessage(m) == "direction" \in DOMAIN m

\* the value the call's landmarks give angle a
LandmarkAngle(c, a) ==
    CASE a = "shoulder_abduction" -> c.landmarks.shoulder_abduction
      [] a = "elbow_flexion" -> c.landmarks.elbow_flexion
      [] a = "shoulder_internal_rotation" -> c.landmarks.internal
      [] a = "shoulder_external_rotation" -> c.landmarks.external

\* the safe ranges of the exercise of call c
RangesOf(c) == DemoProfile(Lower(c.exercise_name))

IsInRange(c, a) ==
    /\ RangesOf(c)[a][1] <= LandmarkAngle(c, a)
    /\ LandmarkAngle(c, a) <= RangesOf(c)[a][2]

AngleRank(direction) ==
    CASE direction \in {"Raise arm higher", "Lower arm"} -> 1
      [] direction \in {"Bend elbow more", "Straighten elbow"} -> 2
      [] direction \in {"Rotate shoulder internally more",
                        "Reduce internal rotation"} -> 3
      [] direction \in {"Rotate shoulder externally more",
                        "Reduce external rotation"} -> 4
      [] OTHER -> 0

RankOfAngle(a) ==
    CASE a = "shoulder_abduction" -> 1
      [] a = "elbow_flexion" -> 2
      [] a = "shoulder_internal_rotation" -> 3
      [] a = "shoulder_external_rotation" -> 4

C23_FeedbackOrdered ==
    (IsFeedbackCall /\ Lower(last_call.exercise_name) \in KnownExercises) =>
        LET result == last_call.result
            n == Len(result)
        IN  /\ \A i \in 1..n :
                  IsPhaseMessage(result[i]) =>
                      /\ i = 1
                      /\ last_call.phase_info.given
                      /\ "phase" \in DOMAIN last_call.phase_info.dict
                      /\ result[i].tag = last_call.phase_info.dict.phase
            /\ \A i \in 1..n :
                  \/ IsPhaseMessage(result[i])
                  \/ IsAngleMessage(result[i]) /\ AngleRank(result[i].direction) > 0
                  \/ n = 1 /\ result[i] = [text |-> "Good form"]
            /\ \A i, j \in 1..n :
                  (i < j /\ IsAngleMessage(result[i]) /\ IsAngleMessage(result[j]))
                      => AngleRank(result[i].direction) < AngleRank(result[j].direction)
            /\ \A a \in DOMAIN RangesOf(last_call) :
                  IsInRange(last_call, a) =>
                      \A i \in 1..n :
                          IsAngleMessage(result[i])
                              => AngleRank(result[i].direction) # RankOfAngle(a)

\* a phase message ahead of the messages of two angles
C23_Witness ==
    /\ IsFeedbackCall
    /\ Len(last_call.result) = 3
    /\ last_call.result[1] =
          [tag |-> "HOLD", message |-> [text |-> "Hold position ({} frames)", n |-> 4]]
    /\ last_call.result[2] = [severity |-> "significantly", direction |-> "Lower arm"]
    /\ last_call.result[3] = [severity |-> "slightly", direction |-> "Straighten elbow"]

(***************************************************************************)
(* C24: for each angle flagged unsafe in a frame, add_frame increments     *)
(* exactly one severity counter of that angle, chosen by the distance to   *)
(* the nearer safe bound: high iff above 30, medium iff above 15 and at    *)
(* most 30, low iff at most 15; one call logs at most one violation per    *)
(* angle.                                                                  *)
(***************************************************************************)
\* the distance of the value call c gives angle a to the nearer safe bound
NearerBoundDistance(c, a) ==
    LET toMin == Abs(c.angles[a] - c.angle_ranges[a][1])
        toMax == Abs(c.angles[a] - c.angle_ranges[a][2])
    IN  IF toMin <= toMax THEN toMin ELSE toMax

\* the severity the claim gives a deviation
ClaimedBucket(deviation) ==
    CHOOSE s \in {"low", "medium", "high"} :
        /\ s = "high" <=> deviation > 30
        /\ s = "medium" <=> (15 < deviation /\ deviation <= 30)
        /\ s = "low" <=> deviation <= 15

\* the step logs at most one violation of angle a, of the claimed severity
LogsAtMostOneOfBucket(a) ==
    /\ LoggedFor(safety_violations', a) <= LoggedFor(safety_violations, a) + 1
    /\ \A i \in (Len(safety_violations) + 1)..Len(safety_violations') :
          safety_violations'[i].angle_name = a =>
              safety_violations'[i].severity
                  = ClaimedBucket(NearerBoundDistance(last_call', a))

\* the part of the claim that does not depend on the counters' values
BucketsExclusive ==
    [][IsAddFrameStep =>
        \A a \in {A1, A2} :
            ObservedUnsafe(last_call', a) => LogsAtMostOneOfBucket(a)]_vars

C24_OneCounterIncremented ==
    [][IsAddFrameStep =>
        \A a \in {A1, A2} :
            ObservedUnsafe(last_call', a) =>
                LET bucket == ClaimedBucket(NearerBoundDistance(last_call', a))
                IN  /\ Counter(violation_tracking', bucket, a)
                          = Counter(violation_tracking, bucket, a) + 1
                    /\ \A s \in Severities \ {bucket} :
                          Counter(violation_tracking', s, a)
                              # Counter(violation_tracking, s, a) + 1
                    /\ LogsAtMostOneOfBucket(a)]_vars

(***************************************************************************)
(* C25: every logged SafetyViolation has escalated = true, the             *)
(* escalation_level of its severity (low 1, medium 2, high 3, critical 4)  *)
(* and the number of the frame whose add_frame call emitted it; the frame  *)
(* numbers in the log never decrease and never exceed frame_count.         *)
(***************************************************************************)
LevelOfSeverity(s) ==
    CASE s = "low" -> 1 [] s = "medium" -> 2 [] s = "high" -> 3 [] s = "critical" -> 4

LogWellFormed ==
    /\ \A i \in 1..Len(safety_violations) :
          /\ safety_violations[i].escalated
          /\ safety_violations[i].severity \in Severities
          /\ safety_violations[i].escalation_level
                = LevelOfSeverity(safety_violations[i].severity)
          /\ safety_violations[i].frame_count \in 1..frame_count
    /\ \A i, j \in 1..Len(safety_violations) :
          i <= j => safety_violations[i].frame_count
                        <= safety_violations[j].frame_count

\* what a step adds to the log carries the number of the frame just stored
EmittedWithFrameNumber ==
    /\ Len(safety_violations') >= Len(safety_violations)
    /\ SubSeq(safety_violations', 1, Len(safety_violations)) = safety_violations
    /\ \A i \in (Len(safety_violations) + 1)..Len(safety_violations') :
          /\ last_call'.op = "add_frame"
          /\ safety_violations'[i].frame_count = Last(frames').frame
          /\ safety_violations'[i].frame_count = frame_count + 1

C25_ViolationRecords == []LogWellFormed /\ [][EmittedWithFrameNumber]_vars

\* violations of frame 1 and of frame 3, of different severities
C25_Witness ==
    /\ frame_count = 3
    /\ Len(safety_violations) >= 2
    /\ safety_violations[1].frame_count = 1
    /\ safety_violations[1].severity = "low"
    /\ Last(safety_violations).frame_count = 3
    /\ Last(safety_violations).severity = "high"
    /\ Last(safety_violations).escalation_level = 3

(***************************************************************************)
(* C26: violation bookkeeping is per angle: observing angle A in add_frame *)
(* changes no severity counter and no by-angle violation count of another  *)
(* angle B, and an angle with a validity flag but no entry in the          *)
(* safe-range map changes no counter and logs no violation.                *)
(***************************************************************************)
\* call c brings no ranged observation of angle b
IsUnobserved(c, b) ==
    \/ b \notin DOMAIN c.validations
    \/ b \notin DOMAIN c.angle_ranges

\* the step leaves the bookkeeping of angle b as it was
BookkeepingUnchanged(b) ==
    /\ \A s \in Severities :
          Counter(violation_tracking', s, b) = Counter(violation_tracking, s, b)
    /\ DictGet(violation_counts', b, 0) = DictGet(violation_counts, b, 0)
    /\ LoggedFor(safety_violations', b) = LoggedFor(safety_violations, b)

C26_PerAngleBookkeeping ==
    [][IsAddFrameStep =>
        \A b \in {A1, A2} :
            IsUnobserved(last_call', b) => BookkeepingUnchanged(b)]_vars

\* a frame observing only A1, unsafe, while A2 has a streak and a violation
C26_Witness ==
    /\ last_call.op = "add_frame"
    /\ A2 \notin DOMAIN last_call.validations
    /\ ObservedUnsafe(last_call, A1)
    /\ Counter(violation_tracking, "high", A2) = 2
    /\ Counter(violation_tracking, "high", A1) = 1
    /\ LoggedFor(safety_violations, A2) = 1
    /\ DictGet(violation_counts, A2, 0) = 1

(***************************************************************************)
(* C27: in every reachable state of a PhaseDetector with thresholds,       *)
(* hold_frames > 0 exactly when the phase is HOLD: RAISE, LOWER and        *)
(* NEUTRAL only with hold_frames = 0, HOLD only with hold_frames >= 1; and *)
(* get_phase_info reports phase_duration equal to hold_frames.             *)
(***************************************************************************)
HoldCountMatchesPhase ==
    thresholds # EmptyDict =>
        /\ current_phase \in {"RAISE", "HOLD", "LOWER", "NEUTRAL"}
        /\ current_phase \in {"RAISE", "LOWER", "NEUTRAL"} => hold_frames = 0
        /\ current_phase = "HOLD" => hold_frames >= 1

\* a get_phase_info call reports the detector's state
InfoReportsHoldFrames ==
    (last_call' # last_call /\ last_call'.op = "get_phase_info") =>
        /\ last_call'.result.phase_duration = hold_frames
        /\ last_call'.result.hold_frames = hold_frames
        /\ last_call'.result.phase = current_phase

C28_RaiseOneFrameNeutralOnce ==
    [][(IsDetectStep /\ thresholds # EmptyDict) =>
        LET yielded == Last(pd_calls').result
        IN  /\ yielded = current_phase'
            /\ current_phase = "RAISE" => yielded \in {"HOLD", "LOWER"}
            /\ current_phase # "NEUTRAL" => yielded # "NEUTRAL"]_vars

\* NEUTRAL left for LOWER, a RAISE frame followed by LOWER, a RAISE frame
\* followed by HOLD
C28_Witness ==
    /\ thresholds # EmptyDict
    /\ Len(pd_calls) = 4
    /\ pd_calls[1].result = "RAISE"
    /\ pd_calls[2].result = "LOWER"
    /\ pd_calls[3].result = "RAISE"
    /\ pd_calls[4].result = "HOLD"

(***************************************************************************)
(* C29: the high-severity counter of an angle is never reset: it is the    *)
(* number of high-severity observations of the angle since the session     *)
(* began, so with the default threshold the third such observation logs a  *)
(* SafetyViolation even with safe, low or medium frames in between.        *)
(***************************************************************************)
\* frame f observes A1 unsafe at high severity
IsHighFrame(f) ==
    /\ A1 \in DOMAIN f.validations
    /\ ~f.validations[A1]
    /\ FrameSeverity(f) = "high"

HighObservations == Cardinality({i \in 1..Len(frames) : IsHighFrame(frames[i])})

HighCounterCountsAll == Counter(violation_tracking, "high", A1) = HighObservations

\* no step lowers the counter; the third high observation logs a violation
HighCounterKept ==
    /\ Counter(violation_tracking', "high", A1)
          >= Counter(violation_tracking, "high", A1)
    /\ (IsAddFrameStep /\ IsHighFrame(Last(frames')) /\ HighObservations' = 3)
          => /\ Len(safety_violations') = Len(safety_violations) + 1
             /\ Last(safety_violations').angle_name = A1
             /\ Last(safety_violations').severity = "high"

IsFlaglessSession ==
    /\ frames # << >>
    /\ \A i \in 1..Len(frames) : DOMAIN frames[i].validations = {}

\* the answer of call c counts every frame as safe; with completion quality
\* 100 and no penalty the score is at least 0.5 x 100 + 0.2 x 100
CountsAllFramesSafe(c) ==
    /\ c.op = "get_summary" =>
          /\ c.result.value.total_frames = Len(frames)
          /\ c.result.value.safe_frames = Len(frames)
          /\ c.result.value.score >= 7000
          /\ c.result.value.safety.total_violations = 0
    /\ c.op = "calculate_score" => c.result.value >= 7000

\* whenever the query of a flagless session returns, it counts all frames safe
ReturnedFlaglessAllSafe ==
    (/\ IsFlaglessSession
     /\ last_call.op \in {"get_summary", "calculate_score"}
     /\ "value" \in DOMAIN last_call.result)
        => safety_violations = << >> /\ CountsAllFramesSafe(last_call)

C31_FlaglessFramesSafe ==
    IsFlaglessSession =>
        /\ safety_violations = << >>
        /\ last_call.op \in {"get_summary", "calculate_score"} =>
              /\ "value" \in DOMAIN last_call.result
              /\ CountsAllFramesSafe(last_call)

====
